---- MODULE Spec2Model ----
(***************************************************************************)
(* Model of the direct residual matcher (esg_matching/matcher/drm.py) and  *)
(* of the JSON settings loader (esgmatching/file_reader/file_settings.py). *)
(*                                                                         *)
(* Spec         : a DbMatcherDrm bound to a policy, a target datasource,   *)
(*                a no-matching table, a referential table and a matching  *)
(*                table, running execute_matching statement by statement.  *)
(* SpecCond     : _get_conditions applied to bounded alias lists.          *)
(* SpecSettings : JsonSettings.__init__ applied to bounded settings files. *)
(***************************************************************************)
EXTENDS Integers, Sequences, FiniteSets, Bags, TLC

VARIABLES
    policy,             \* the MatchingPolicy handed to the matcher
    matching_rules,     \* self._matching_rules: rule key -> alias list
    no_matching_table,  \* rows of self._no_matching_table
    ref_table,          \* rows of self._ref_table
    matching_table,     \* rows of self._matching_table (a bag)
    pc,                 \* position of the caller / of execute_matching
    rule_idx,           \* position of the loop of line 142 in matching_rules
    attribute_rules,    \* argument of the last call of _get_conditions
    join_condition,     \* join_condition of the current rule (line 152)
    where_condition,    \* where_condition of the current rule (line 152)
    error,              \* the exception that ended the call, or NoError
    run,                \* number of calls of execute_matching so far
    executed,           \* statements executed by the current run
    nm_at_start,        \* no_matching_table when the current run started
    matching_at_start,  \* matching_table when the current run started
    json_settings,      \* argument of JsonSettings.__init__
    settings            \* the JsonSettings object

matcher_vars == <<policy, matching_rules, no_matching_table, ref_table,
                  matching_table, rule_idx, run, executed, nm_at_start,
                  matching_at_start>>
cond_vars == <<attribute_rules, join_condition, where_condition>>
settings_vars == <<json_settings, settings>>
vars == <<matcher_vars, cond_vars, settings_vars, pc, error>>

----------------------------------------------------------------------------
(* Bounds of the model *)

MaxRules == 2
MaxRuns == 2
MaxRefRows == 2
MaxAliases == 3

----------------------------------------------------------------------------
(* Datasources.  The descriptors are read-only during a run. *)

NoError == "NoError"

\* self._matching_type, set by the constructor
MatchingType == "drm"
LiteralMatchingType == "direct"
LiteralMatchingScope == "residual"

\* self._tgt_source.name, and the name of another target dataset whose
\* residuals share the no-matching table
TgtName == "tgt_companies"
OtherTgtName == "tgt_funds"

\* self._tgt_source: alias -> name of the target column
TgtMatchingAlias ==
    [isin |-> "isin_code", lei |-> "lei_code", sedol |-> "sedol_code",
     ticker |-> "ticker_symbol", figi |-> "figi_code"]

\* self._ref_source: alias -> name of the referential column
RefMatchingAlias ==
    [isin |-> "ISIN", lei |-> "LEI", sedol |-> "SEDOL", cusip |-> "CUSIP"]

\* columns of the no-matching table, and of the referential table
NoMatchingColumns ==
    {"tgt_name", "tgt_id", "isin_code", "lei_code", "sedol_code", "figi_code"}
RefColumns == {"ISIN", "LEI", "SEDOL", "CUSIP"}

\* self._no_matching_source.matching_id
MatchingIdCol == "tgt_id"

\* aliases a rule may name: isin, lei and sedol resolve in every datasource;
\* cusip is no alias of the target, the target column of ticker is no column
\* of the no-matching table, figi is no alias of the referential
Aliases == {"isin", "lei", "sedol", "cusip", "ticker", "figi"}

----------------------------------------------------------------------------
(* Condition builder: an expression tree over equality leaves *)

NoCondition == [op |-> "none"]

create_condition == NoCondition

equal_cols(builder, left, right) ==
    LET leaf == [op |-> "eq", left |-> left, right |-> right]
    IN  IF builder = NoCondition THEN leaf
        ELSE [op |-> "and", args |-> <<builder, leaf>>]

equal_value(builder, col, value) ==
    LET leaf == [op |-> "eq_value", col |-> col, value |-> value]
    IN  IF builder = NoCondition THEN leaf
        ELSE [op |-> "and", args |-> <<builder, leaf>>]

and_condition(builder, condition) ==
    [op |-> "and", args |-> <<builder, condition>>]

get_condition(builder) == builder

\* the truth of a condition on a (no-matching row, referential row) pair
RECURSIVE holds(_, _, _)
holds(c, l, r) ==
    IF c.op = "eq" THEN l[c.left] = r[c.right]
    ELSE IF c.op = "eq_value" THEN l[c.col] = c.value
    ELSE IF c.op = "and" THEN holds(c.args[1], l, r) /\ holds(c.args[2], l, r)
    ELSE FALSE

----------------------------------------------------------------------------
(* Matching policy *)

has_rule_type(p, type) == type \in DOMAIN p /\ Len(p[type]) > 0

rules_of_type(p, type) == IF type \in DOMAIN p THEN p[type] ELSE <<>>

----------------------------------------------------------------------------
(* DbMatcherDrm *)

can_matcher_be_used_never(p) == NoError

can_matcher_be_used(p) ==
    IF ~has_rule_type(p, MatchingType)
    THEN "DirectResidualMatchingNotInPolicy"
    ELSE NoError

\* lines 80-82: the two columns of one alias, or the error of the lookup
resolve_alias(alias) ==
    IF alias \notin DOMAIN TgtMatchingAlias
    THEN [error |-> "AliasNotResolved"]
    ELSE IF TgtMatchingAlias[alias] \notin NoMatchingColumns
    THEN [error |-> "AliasNotResolved"]
    ELSE IF alias \notin DOMAIN RefMatchingAlias
              \/ RefMatchingAlias[alias] \notin RefColumns
    THEN [error |-> "AliasNotResolved"]
    ELSE [error |-> NoError,
          left |-> TgtMatchingAlias[alias],
          right |-> RefMatchingAlias[alias]]

\* the loop of lines 78-89, from alias i on, with join_condition = jc
RECURSIVE join_loop(_, _, _)
join_loop(rules, i, jc) ==
    IF i > Len(rules) THEN [error |-> NoError, join |-> jc]
    ELSE LET cols == resolve_alias(rules[i])
         IN  IF cols.error # NoError
             THEN [error |-> cols.error, join |-> jc]
             ELSE LET builder ==
                          equal_cols(create_condition, cols.left, cols.right)
                  IN  IF jc = NoCondition
                      THEN join_loop(rules, i + 1, get_condition(builder))
                      ELSE join_loop(rules, i + 1,
                               get_condition(and_condition(builder, jc)))

RECURSIVE join_loop_last(_, _, _)
join_loop_last(rules, i, jc) ==
    IF i > Len(rules) THEN [error |-> NoError, join |-> jc]
    ELSE LET cols == resolve_alias(rules[i])
         IN  IF cols.error # NoError
             THEN [error |-> cols.error, join |-> jc]
             ELSE join_loop_last(rules, i + 1,
                      get_condition(equal_cols(create_condition,
                                               cols.left, cols.right)))

get_conditions_last_leaf(rules) ==
    LET j == join_loop_last(rules, 1, NoCondition)
    IN  [error |-> j.error,
         join |-> j.join,
         where |-> IF j.error # NoError THEN NoCondition
                   ELSE get_condition(
                            equal_value(create_condition, "tgt_name", TgtName))]

get_conditions(rules) ==
    LET j == join_loop(rules, 1, NoCondition)
    IN  [error |-> j.error,
         join |-> j.join,
         where |-> IF j.error # NoError THEN NoCondition
                   ELSE get_condition(
                            equal_value(create_condition, "tgt_name", TgtName))]

\* the row of the matching table built from one joined pair: the literal
\* columns, the no-matching columns and the referential columns
get_cols_match(rule_name, l, r) ==
    [matching_rule |-> rule_name,
     matching_type |-> LiteralMatchingType,
     matching_scope |-> LiteralMatchingScope,
     tgt_name |-> l.tgt_name, tgt_id |-> l.tgt_id,
     isin_code |-> l.isin_code, lei_code |-> l.lei_code,
     sedol_code |-> l.sedol_code, figi_code |-> l.figi_code,
     ISIN |-> r.ISIN, LEI |-> r.LEI, SEDOL |-> r.SEDOL, CUSIP |-> r.CUSIP]

select_joined_no_where(nm, ref, jc, wc) ==
    {p \in nm \X ref : holds(jc, p[1], p[2])}

\* lines 155-159: no_matching JOIN ref ON join_condition WHERE where_condition
select_joined(nm, ref, jc, wc) ==
    {p \in nm \X ref : holds(jc, p[1], p[2]) /\ holds(wc, p[1], p[2])}

\* lines 164-165: INSERT INTO matching ... SELECT
insert_into_from_select(matching, rule_name, selected) ==
    matching (+) SetToBag({get_cols_match(rule_name, p[1], p[2]) : p \in selected})

\* lines 170-175: SELECT matching_id FROM no_matching JOIN ref ON ... WHERE ...
select_matching_ids(nm, ref, jc, wc) ==
    {p[1][MatchingIdCol] : p \in select_joined(nm, ref, jc, wc)}

delete_data_skipped(nm, ids) == nm

delete_data_first_id(nm, ids) ==
    IF ids = {} THEN nm
    ELSE LET first == CHOOSE i \in ids : \A j \in ids : i <= j
         IN  {l \in nm : l[MatchingIdCol] # first}

\* lines 176-179: DELETE FROM no_matching WHERE matching_id IN (select)
delete_data(nm, ids) == {l \in nm : l[MatchingIdCol] \notin ids}

----------------------------------------------------------------------------
(* Inputs of the matcher *)

Values == {"A", "B"}

\* rows a no-matching table may hold: the identifier of a row is unique
\* among the residuals of its own target dataset
NoMatchingKeys == {<<TgtName, 1>>, <<TgtName, 2>>, <<OtherTgtName, 1>>}
NoMatchingValues == Values \X Values

\* the bounded inputs vary the isin and lei columns and keep the others fixed
NoMatchingRow(k, v) ==
    [tgt_name |-> k[1], tgt_id |-> k[2], isin_code |-> v[1], lei_code |-> v[2],
     sedol_code |-> "S", figi_code |-> "F"]

NoMatchingTables ==
    UNION {{ {NoMatchingRow(k, f[k]) : k \in ks} : f \in [ks -> NoMatchingValues]}
           : ks \in SUBSET NoMatchingKeys}

RefRows ==
    {[ISIN |-> i, LEI |-> l, SEDOL |-> "S", CUSIP |-> "C"] :
        i \in Values, l \in Values}

RefTables == {t \in SUBSET RefRows : Cardinality(t) <= MaxRefRows}

RuleBodies == {<<"isin">>, <<"isin", "lei">>, <<"ticker">>}

RECURSIVE SeqsUpTo(_, _)
SeqsUpTo(S, n) ==
    IF n = 0 THEN {<<>>}
    ELSE LET shorter == SeqsUpTo(S, n - 1)
         IN  shorter \cup {Append(s, x) : s \in shorter, x \in S}

Policies ==
    {[drm |-> rs] : rs \in SeqsUpTo(RuleBodies, MaxRules) \ {<<>>}}
    \cup {[dfm |-> <<<<"isin">>>>], [ifm |-> <<<<"lei">>>>]}

NoSettings == [state |-> "none"]

----------------------------------------------------------------------------
(* The matcher *)

Init ==
    /\ policy \in Policies
    /\ no_matching_table \in NoMatchingTables
    /\ ref_table \in RefTables
    /\ matching_table = EmptyBag
    /\ matching_rules = <<>>
    /\ pc = "new"
    /\ rule_idx = 0
    /\ attribute_rules = <<>>
    /\ join_condition = NoCondition
    /\ where_condition = NoCondition
    /\ error = NoError
    /\ run = 0
    /\ executed = <<>>
    /\ nm_at_start = no_matching_table
    /\ matching_at_start = matching_table
    /\ json_settings = NoSettings
    /\ settings = NoSettings

\* the matcher is given its policy: the gate of _can_matcher_be_used
UsePolicy ==
    /\ pc = "new"
    /\ LET e == can_matcher_be_used(policy)
       IN  IF e # NoError
           THEN /\ pc' = "failed"
                /\ error' = e
                /\ UNCHANGED matching_rules
           ELSE /\ pc' = "ready"
                /\ matching_rules' = rules_of_type(policy, MatchingType)
                /\ UNCHANGED error
    /\ UNCHANGED <<policy, no_matching_table, ref_table, matching_table,
                   rule_idx, run, executed, nm_at_start, matching_at_start,
                   cond_vars, settings_vars>>

\* execute_matching is called: the loop of line 142 starts
StartRun ==
    /\ pc \in {"ready", "done"}
    /\ run < MaxRuns
    /\ run' = run + 1
    /\ executed' = <<>>
    /\ nm_at_start' = no_matching_table
    /\ matching_at_start' = matching_table
    /\ rule_idx' = 1
    /\ pc' = IF Len(matching_rules) = 0 THEN "done" ELSE "insert"
    /\ UNCHANGED <<policy, matching_rules, no_matching_table, ref_table,
                   matching_table, cond_vars, settings_vars, error>>

\* lines 147-165 of one rule: the conditions are built, the insert executes
InsertMatches ==
    /\ pc = "insert"
    /\ LET conds == get_conditions(matching_rules[rule_idx])
       IN  /\ conds.error = NoError
           /\ attribute_rules' = matching_rules[rule_idx]
           /\ join_condition' = conds.join
           /\ where_condition' = conds.where
           /\ matching_table' =
                  insert_into_from_select(matching_table, rule_idx,
                      select_joined(no_matching_table, ref_table,
                                    conds.join, conds.where))
    /\ executed' = Append(executed, <<"insert", rule_idx>>)
    /\ pc' = "delete"
    /\ UNCHANGED <<policy, matching_rules, no_matching_table, ref_table,
                   rule_idx, run, nm_at_start, matching_at_start,
                   settings_vars, error>>

\* line 152 raises: an alias of the rule does not resolve
ConditionsRaise ==
    /\ pc = "insert"
    /\ LET conds == get_conditions(matching_rules[rule_idx])
       IN  /\ conds.error # NoError
           /\ error' = conds.error
           /\ attribute_rules' = matching_rules[rule_idx]
    /\ pc' = "failed"
    /\ UNCHANGED <<matcher_vars, join_condition, where_condition,
                   settings_vars>>

\* line 165 raises: the storage refuses the insert, which has no effect
InsertRaises ==
    /\ pc = "insert"
    /\ LET conds == get_conditions(matching_rules[rule_idx])
       IN  /\ conds.error = NoError
           /\ attribute_rules' = matching_rules[rule_idx]
           /\ join_condition' = conds.join
           /\ where_condition' = conds.where
    /\ error' = "StorageError"
    /\ pc' = "failed"
    /\ UNCHANGED <<matcher_vars, settings_vars>>

\* lines 170-179 of one rule: the delete executes, the loop goes on
DeleteMatched ==
    /\ pc = "delete"
    /\ no_matching_table' =
           delete_data(no_matching_table,
               select_matching_ids(no_matching_table, ref_table,
                                   join_condition, where_condition))
    /\ executed' = Append(executed, <<"delete", rule_idx>>)
    /\ IF rule_idx < Len(matching_rules)
       THEN /\ rule_idx' = rule_idx + 1
            /\ pc' = "insert"
       ELSE /\ pc' = "done"
            /\ UNCHANGED rule_idx
    /\ UNCHANGED <<policy, matching_rules, ref_table, matching_table, run,
                   nm_at_start, matching_at_start, cond_vars, settings_vars,
                   error>>

\* line 179 raises: the storage refuses the delete, which has no effect
DeleteRaises ==
    /\ pc = "delete"
    /\ error' = "StorageError"
    /\ pc' = "failed"
    /\ UNCHANGED <<matcher_vars, cond_vars, settings_vars>>

Next ==
    \/ UsePolicy
    \/ StartRun
    \/ InsertMatches
    \/ ConditionsRaise
    \/ InsertRaises
    \/ DeleteMatched
    \/ DeleteRaises

Spec == Init /\ [][Next]_vars

----------------------------------------------------------------------------
(* _get_conditions on its own: the alias list is the input *)

AttributeRulesInputs == SeqsUpTo(Aliases, MaxAliases)

InitCond ==
    /\ attribute_rules \in AttributeRulesInputs
    /\ pc = "cond_call"
    /\ join_condition = NoCondition
    /\ where_condition = NoCondition
    /\ error = NoError
    /\ policy = [drm |-> <<attribute_rules>>]
    /\ matching_rules = <<attribute_rules>>
    /\ no_matching_table = {}
    /\ ref_table = {}
    /\ matching_table = EmptyBag
    /\ rule_idx = 1
    /\ run = 0
    /\ executed = <<>>
    /\ nm_at_start = {}
    /\ matching_at_start = EmptyBag
    /\ json_settings = NoSettings
    /\ settings = NoSettings

\* one call of _get_conditions(attribute_rules), to its return or its raise
GetConditions ==
    /\ pc = "cond_call"
    /\ LET conds == get_conditions(attribute_rules)
       IN  /\ join_condition' = conds.join
           /\ where_condition' = conds.where
           /\ error' = conds.error
           /\ pc' = IF conds.error = NoError THEN "cond_returned"
                    ELSE "cond_raised"
    /\ UNCHANGED <<matcher_vars, attribute_rules, settings_vars>>

NextCond == GetConditions

SpecCond == InitCond /\ [][NextCond]_vars

----------------------------------------------------------------------------
(* JsonSettings: the object built from a settings file *)

\* Python's None, and a dict without keys
None == [py_none |-> TRUE]
IsNone(v) == DOMAIN v = {"py_none"}
EmptyDict == [k \in {} |-> k]
DictLen(d) == Cardinality(DOMAIN d)

\* the attributes as the first lines of __init__ set them (lines 39-60)
DefaultSettings ==
    [file_path |-> "",
     file_extension_pattern |-> "",
     filename_pattern |-> "",
     file_encoding |-> "utf-8",
     file_separator |-> ";",
     datasource_name |-> "unknown",
     datasource_table_name |-> "unknown",
     datasource_create_table |-> TRUE,
     datasource_if_table_exists |-> "drop",
     datasource_primary_keys |-> None,
     datasource_attributes |-> None,
     matching_role |-> "target",
     matching_id |-> "",
     matching_alias |-> None,
     map_to_matching |-> None,
     map_indirect_matching |-> None,
     matching_policy |-> None]

\* obj with the attribute named key set to the entry of sub_dict, when present
SetIfPresent(obj, attr, sub_dict, key) ==
    IF key \in DOMAIN sub_dict THEN [obj EXCEPT ![attr] = sub_dict[key]]
    ELSE obj

\* lines 93-104; line 100 reads sub_dict['file_path'] under the test of
\* 'filename_pattern', which raises KeyError when file_path is absent
set_file_processing_settings(obj, settings_json) ==
    IF "file_processing" \notin DOMAIN settings_json
    THEN [error |-> NoError, obj |-> obj]
    ELSE LET sub_dict == settings_json["file_processing"]
             o1 == SetIfPresent(obj, "file_path", sub_dict, "file_path")
             o2 == SetIfPresent(o1, "file_extension_pattern", sub_dict,
                                "file_extension_pattern")
         IN  IF "filename_pattern" \in DOMAIN sub_dict
                /\ "file_path" \notin DOMAIN sub_dict
             THEN [error |-> "KeyError", obj |-> o2]
             ELSE LET o3 == IF "filename_pattern" \in DOMAIN sub_dict
                            THEN [o2 EXCEPT !.file_path = sub_dict["file_path"]]
                            ELSE o2
                      o4 == SetIfPresent(o3, "file_encoding", sub_dict,
                                         "encoding")
                      o5 == SetIfPresent(o4, "file_separator", sub_dict,
                                         "separator")
                  IN  [error |-> NoError, obj |-> o5]

\* eval() of line 133 on the strings the inputs hold: the two literals give
\* their value, a bare word is an undefined name
py_eval(text) ==
    IF text = "True" THEN [error |-> NoError, value |-> TRUE]
    ELSE IF text = "False" THEN [error |-> NoError, value |-> FALSE]
    ELSE [error |-> "NameError", value |-> FALSE]

\* lines 126-173: the first raise wins, the assignments before it are made
set_data_source_settings(obj, settings_json) ==
    IF "data_source" \notin DOMAIN settings_json
    THEN [error |-> "DataSourceSettingsNotDefined", obj |-> obj]
    ELSE LET sub_dict == settings_json["data_source"]
             has(key) == key \in DOMAIN sub_dict
             o1 == SetIfPresent(obj, "datasource_name", sub_dict, "name")
             o2 == SetIfPresent(o1, "datasource_table_name", sub_dict,
                                "table_name")
             o3 == IF has("create_table")
                   THEN [o2 EXCEPT !.datasource_create_table =
                                       py_eval(sub_dict["create_table"]).value]
                   ELSE o2
             o4 == SetIfPresent(o3, "datasource_if_table_exists", sub_dict,
                                "if_table_exists")
             o5 == IF has("primary_keys") /\ Len(sub_dict["primary_keys"]) > 0
                   THEN [o4 EXCEPT !.datasource_primary_keys =
                                       sub_dict["primary_keys"]]
                   ELSE o4
             o6 == IF has("attributes") /\ DictLen(sub_dict["attributes"]) > 0
                   THEN [o5 EXCEPT !.datasource_attributes =
                                       sub_dict["attributes"]]
                   ELSE o5
             o7 == SetIfPresent(o6, "matching_role", sub_dict, "matching_role")
             o8 == SetIfPresent(o7, "matching_id", sub_dict, "matching_id")
             o9 == SetIfPresent(o8, "matching_alias", sub_dict,
                                "matching_alias")
             o10 == SetIfPresent(o9, "map_to_matching", sub_dict,
                                 "map_to_matching")
             o11 == SetIfPresent(o10, "map_indirect_matching", sub_dict,
                                 "map_indirect_matching")
         IN  IF has("create_table")
                /\ py_eval(sub_dict["create_table"]).error # NoError
             THEN [error |-> py_eval(sub_dict["create_table"]).error,
                   obj |-> o2]
             ELSE IF has("if_table_exists")
                     /\ sub_dict["if_table_exists"] \notin {"drop", "clean"}
             THEN [error |-> "IfTableExistsNotRecognized", obj |-> o3]
             ELSE IF has("matching_role")
                     /\ sub_dict["matching_role"] \notin
                            {"referential", "target", "matching", "no-matching"}
             THEN [error |-> "MatchingRoleNotRecognized", obj |-> o6]
             ELSE IF has("matching_alias")
                     /\ DictLen(sub_dict["matching_alias"]) = 0
             THEN [error |-> "AliasMatchingNotDefined", obj |-> o8]
             ELSE IF has("map_to_matching")
                     /\ DictLen(sub_dict["map_to_matching"]) = 0
             THEN [error |-> "FieldsMappingToMatchingTableNotDefined",
                   obj |-> o9]
             ELSE IF has("map_indirect_matching")
                     /\ DictLen(sub_dict["map_indirect_matching"]) = 0
             THEN [error |-> "FieldsMappingToMatchingTableNotDefined",
                   obj |-> o10]
             ELSE [error |-> NoError, obj |-> o11]

\* the policy names of a settings file, in the order of the file
PolicyNames == <<"p1", "p2">>

\* lines 201-213 for one policy: the first empty rule set raises
check_policy_rules(policy_dict) ==
    IF "dfm" \in DOMAIN policy_dict /\ DictLen(policy_dict["dfm"]) = 0
    THEN "DfmRulesEmptyInMatchingPolicy"
    ELSE IF "drm" \in DOMAIN policy_dict /\ DictLen(policy_dict["drm"]) = 0
    THEN "DrmRulesEmptyInMatchingPolicy"
    ELSE IF "ifm" \in DOMAIN policy_dict /\ DictLen(policy_dict["ifm"]) = 0
    THEN "IfmRulesEmptyInMatchingPolicy"
    ELSE NoError

\* the loop of line 200 from the i-th policy name on
RECURSIVE check_policies(_, _)
check_policies(sub_dict, i) ==
    IF i > Len(PolicyNames) THEN NoError
    ELSE IF PolicyNames[i] \notin DOMAIN sub_dict
    THEN check_policies(sub_dict, i + 1)
    ELSE LET e == check_policy_rules(sub_dict[PolicyNames[i]])
         IN  IF e # NoError THEN e ELSE check_policies(sub_dict, i + 1)

\* lines 196-214
set_matching_policy_settings(obj, settings_json) ==
    IF "matching_policy" \notin DOMAIN settings_json
    THEN [error |-> NoError, obj |-> obj]
    ELSE LET sub_dict == settings_json["matching_policy"]
         IN  IF DictLen(sub_dict) = 0
             THEN [error |-> "MatchingPolicyEmpty", obj |-> obj]
             ELSE IF check_policies(sub_dict, 1) # NoError
             THEN [error |-> check_policies(sub_dict, 1), obj |-> obj]
             ELSE [error |-> NoError,
                   obj |-> [obj EXCEPT !.matching_policy = sub_dict]]

\* lines 38-76: the object, and the exception the constructor ends with
json_settings_init(file) ==
    IF ~file.exists
    THEN [error |-> "FileSettingsDoesNotExist", obj |-> DefaultSettings]
    ELSE IF file.extension # ".json"
    THEN [error |-> "FileSettingsIsNotAJsonFile", obj |-> DefaultSettings]
    ELSE LET fp == set_file_processing_settings(DefaultSettings, file.content)
         IN  IF fp.error # NoError THEN fp
             ELSE LET ds == set_data_source_settings(fp.obj, file.content)
                  IN  IF ds.error # NoError THEN ds
                      ELSE set_matching_policy_settings(ds.obj, file.content)

----------------------------------------------------------------------------
(* Inputs of JsonSettings *)

Absent == [absent |-> TRUE]

FileProcessingInputs ==
    {Absent,
     EmptyDict,
     [file_path |-> "data/"],
     [file_path |-> "data/", filename_pattern |-> "esg_*"],
     [filename_pattern |-> "esg_*"],
     [file_path |-> "data/esg.csv", file_extension_pattern |-> "*.csv",
      encoding |-> "latin-1", separator |-> ","]}

DataSourceInputs ==
    {Absent,
     EmptyDict,
     [name |-> "companies", table_name |-> "TGT_COMPANIES",
      create_table |-> "True", if_table_exists |-> "clean",
      primary_keys |-> <<"tgt_id">>,
      attributes |-> [ID |-> "tgt_id", ISIN |-> "isin_code"],
      matching_role |-> "referential", matching_id |-> "tgt_id",
      matching_alias |-> [isin |-> "isin_code"],
      map_to_matching |-> [tgt_id |-> "tgt_id"],
      map_indirect_matching |-> [isin |-> "isin_code"]],
     [create_table |-> "False", if_table_exists |-> "drop",
      primary_keys |-> <<>>, attributes |-> EmptyDict,
      matching_role |-> "no-matching"],
     [name |-> "companies", create_table |-> "yes"],
     [name |-> "companies", if_table_exists |-> "truncate"],
     [name |-> "companies", matching_role |-> "source"],
     [name |-> "companies", matching_alias |-> EmptyDict],
     [name |-> "companies", map_to_matching |-> EmptyDict],
     [name |-> "companies", map_indirect_matching |-> EmptyDict]}

MatchingPolicyInputs ==
    {Absent,
     EmptyDict,
     [p1 |-> [dfm |-> [r1 |-> <<"isin">>],
              drm |-> [r1 |-> <<"isin", "lei">>, r2 |-> <<"lei">>],
              ifm |-> [r1 |-> <<"lei">>]]],
     [p1 |-> EmptyDict],
     [p1 |-> [dfm |-> EmptyDict]],
     [p1 |-> [drm |-> EmptyDict]],
     [p1 |-> [ifm |-> EmptyDict]],
     [p1 |-> [dfm |-> [r1 |-> <<"isin">>]], p2 |-> [drm |-> EmptyDict]],
     [p1 |-> [drm |-> [r1 |-> <<>>]]],
     [p1 |-> [drm |-> [r1 |-> <<"isin">>]],
      p2 |-> [ifm |-> [r1 |-> <<"lei">>, r2 |-> <<>>]]]}

Section(key, value) == IF value = Absent THEN EmptyDict ELSE key :> value

SettingsFiles ==
    {[exists |-> FALSE, extension |-> ".json", content |-> EmptyDict],
     [exists |-> TRUE, extension |-> ".txt", content |-> EmptyDict]}
    \cup
    {[exists |-> TRUE, extension |-> ".json",
      content |-> Section("file_processing", fp)
                  @@ Section("data_source", ds)
                  @@ Section("matching_policy", mp)] :
        fp \in FileProcessingInputs, ds \in DataSourceInputs,
        mp \in MatchingPolicyInputs}

InitSettings ==
    /\ json_settings \in SettingsFiles
    /\ settings = NoSettings
    /\ pc = "settings_new"
    /\ error = NoError
    /\ policy = [dfm |-> <<>>]
    /\ matching_rules = <<>>
    /\ no_matching_table = {}
    /\ ref_table = {}
    /\ matching_table = EmptyBag
    /\ rule_idx = 0
    /\ attribute_rules = <<>>
    /\ join_condition = NoCondition
    /\ where_condition = NoCondition
    /\ run = 0
    /\ executed = <<>>
    /\ nm_at_start = {}
    /\ matching_at_start = EmptyBag

\* JsonSettings(json_settings): the constructor returns the object or raises
JsonSettingsInit ==
    /\ pc = "settings_new"
    /\ LET made == json_settings_init(json_settings)
       IN  /\ settings' = made.obj
           /\ error' = made.error
           /\ pc' = IF made.error = NoError THEN "constructed" ELSE "raised"
    /\ UNCHANGED <<matcher_vars, cond_vars, json_settings>>

NextSettings == JsonSettingsInit

SpecSettings == InitSettings /\ [][NextSettings]_vars

----------------------------------------------------------------------------
(* Definitions the properties share *)

\* the no-matching row and the referential row a matching row was built from
NmRowOf(m) ==
    [tgt_name |-> m.tgt_name, tgt_id |-> m.tgt_id,
     isin_code |-> m.isin_code, lei_code |-> m.lei_code,
     sedol_code |-> m.sedol_code, figi_code |-> m.figi_code]

RefRowOf(m) ==
    [ISIN |-> m.ISIN, LEI |-> m.LEI, SEDOL |-> m.SEDOL, CUSIP |-> m.CUSIP]

\* the rule's aliases are equal, column by column, on the pair (l, r)
RuleSatisfied(aliases, l, r) ==
    \A i \in 1..Len(aliases) :
        l[TgtMatchingAlias[aliases[i]]] = r[RefMatchingAlias[aliases[i]]]

\* the rows the current run has added to the matching table
InsertedByRun == matching_table (-) matching_at_start

\* the rows the current run has removed from the no-matching table
DeletedByRun == nm_at_start \ no_matching_table

StatementsOf(kind) ==
    {executed[i][2] : i \in {j \in 1..Len(executed) : executed[j][1] = kind}}

----------------------------------------------------------------------------
(* Properties of the matcher *)

C3_ResidualPurgeComplete ==
    pc = "done" =>
        \A l \in no_matching_table :
            l.tgt_name = TgtName =>
                \A k \in 1..Len(matching_rules) : \A r \in ref_table :
                    ~RuleSatisfied(matching_rules[k], l, r)

C3_Witness ==
    /\ pc = "done"
    /\ run = 1
    /\ Len(matching_rules) = 2
    /\ \E l \in DeletedByRun : l.tgt_name = TgtName
    /\ \E m \in BagToSet(InsertedByRun) : m.matching_rule = 2
    /\ \E l \in no_matching_table : l.tgt_name = TgtName

C5_SecondRunIdempotent ==
    run >= 2 =>
        /\ matching_table = matching_at_start
        /\ no_matching_table = nm_at_start

C5_Witness ==
    /\ run = 2
    /\ pc = "done"
    /\ Len(executed) = 2 * Len(matching_rules)
    /\ matching_at_start # EmptyBag
    /\ no_matching_table # {}

\* C6: a run that fails because an alias of a rule does not resolve has
\* changed nothing: the matching and the no-matching table are as they were
\* when the run started, also when the faulty rule is not the first one.
C6_ConfigErrorBeforeAnyStatement ==
    error = "AliasNotResolved" =>
        /\ matching_table = matching_at_start
        /\ no_matching_table = nm_at_start

\* C7: in every state of a run, every row that has been removed from the
\* no-matching table has a row in the matching table built from it.
C7_DeletedRowsHaveMatch ==
    \A l \in DeletedByRun :
        \E m \in BagToSet(matching_table) : NmRowOf(m) = l

\* C8: when a storage error has aborted the run, no rule is half-applied:
\* a rule whose inserted rows are in the matching table has had its delete
\* executed as well.
C8_NoRuleHalfApplied ==
    error = "StorageError" =>
        \A k \in 1..Len(matching_rules) :
            (\E m \in BagToSet(InsertedByRun) : m.matching_rule = k)
                => k \in StatementsOf("delete")

\* C9: a run for the target dataset leaves every no-matching row of another
\* target dataset in place, and no such row contributes a matching row.
C9_OtherTargetsUntouched ==
    /\ \A l \in nm_at_start :
           l.tgt_name # TgtName => l \in no_matching_table
    /\ \A m \in BagToSet(matching_table) : m.tgt_name = TgtName

----------------------------------------------------------------------------
(* Properties of _get_conditions *)

\* the equality leaves of a condition, with their multiplicities
RECURSIVE leaves(_)
leaves(c) ==
    IF c.op = "and" THEN leaves(c.args[1]) (+) leaves(c.args[2])
    ELSE IF c.op = "none" THEN EmptyBag
    ELSE SetToBag({c})

\* the leaf an alias stands for: its no-matching column = its referential column
LeafOf(alias) ==
    [op |-> "eq", left |-> TgtMatchingAlias[alias],
     right |-> RefMatchingAlias[alias]]

RECURSIVE LeavesOfAliases(_)
LeavesOfAliases(aliases) ==
    IF aliases = <<>> THEN EmptyBag
    ELSE SetToBag({LeafOf(Head(aliases))}) (+) LeavesOfAliases(Tail(aliases))

Reorderings(aliases) ==
    {[i \in 1..Len(aliases) |-> aliases[f[i]]] :
        f \in Permutations(1..Len(aliases))}

\* C2: for a rule of N >= 1 aliases the join condition _get_conditions returns
\* is the conjunction of exactly N equality leaves, one per alias, and every
\* reordering of the aliases gives the same leaves; two aliases give an AND
\* of two leaves.
C2_JoinIsConjunctionOfAllLeaves ==
    (pc = "cond_returned" /\ Len(attribute_rules) >= 1) =>
        /\ BagCardinality(leaves(join_condition)) = Len(attribute_rules)
        /\ leaves(join_condition) = LeavesOfAliases(attribute_rules)
        /\ \A other \in Reorderings(attribute_rules) :
               /\ get_conditions(other).error = NoError
               /\ leaves(get_conditions(other).join) = leaves(join_condition)
        /\ (Len(attribute_rules) >= 2 => join_condition.op = "and")

C2_Witness ==
    /\ pc = "cond_returned"
    /\ Len(attribute_rules) = 3
    /\ BagCardinality(leaves(join_condition)) = 3
    /\ Cardinality(BagToSet(leaves(join_condition))) = 3

----------------------------------------------------------------------------
(* Properties of JsonSettings *)

RuleTypes == {"dfm", "drm", "ifm"}

\* C10: a JsonSettings object constructed without raising exposes a
\* matching_policy in which every present rule set has at least one rule and
\* every rule has at least one alias.
C10_PolicyRulesAndAliasesNonEmpty ==
    (pc = "constructed" /\ ~IsNone(settings.matching_policy)) =>
        \A name \in DOMAIN settings.matching_policy :
            \A type \in RuleTypes \cap DOMAIN settings.matching_policy[name] :
                LET rules_dict == settings.matching_policy[name][type]
                IN  /\ DictLen(rules_dict) >= 1
                    /\ \A rule \in DOMAIN rules_dict :
                           Len(rules_dict[rule]) >= 1

\* C11: after JsonSettings has loaded a settings file whose file_processing
\* section holds a filename_pattern key, the filename_pattern attribute of the
\* object is the configured value, with or without a file_path key beside it.
C11_FilenamePatternLoaded ==
    (/\ pc = "constructed"
     /\ "file_processing" \in DOMAIN json_settings.content
     /\ "filename_pattern" \in DOMAIN json_settings.content["file_processing"])
        => settings.filename_pattern =
               json_settings.content["file_processing"]["filename_pattern"]

\* C11, the case without a file_path key: the file loads, that is, the
\* constructor does not end with the KeyError of line 100.
C11_FilenamePatternAloneLoads ==
    (/\ pc = "raised"
     /\ "file_processing" \in DOMAIN json_settings.content
     /\ "filename_pattern" \in DOMAIN json_settings.content["file_processing"])
        => error # "KeyError"

----------------------------------------------------------------------------
(* Rule order *)

\* the no-matching table that the loop of execute_matching leaves when it
\* runs the rules from the i-th on, one after another, on the table nm
RECURSIVE no_matching_after(_, _, _, _)
no_matching_after(rules, i, nm, ref) ==
    IF i > Len(rules) THEN nm
    ELSE LET conds == get_conditions(rules[i])
         IN  no_matching_after(rules, i + 1,
                 delete_data(nm,
                     select_matching_ids(nm, ref, conds.join, conds.where)),
                 ref)

\* the statements of the first n rules, in the order the loop issues them
RECURSIVE StatementsInOrder(_)
StatementsInOrder(n) ==
    IF n = 0 THEN <<>>
    ELSE StatementsInOrder(n - 1) \o <<<<"insert", n>>, <<"delete", n>>>>

IsPrefix(s, t) == Len(s) <= Len(t) /\ \A i \in 1..Len(s) : s[i] = t[i]

\* C12: the rules are processed strictly one after another, each seeing the
\* deletions of the earlier ones: the statements run in the order insert 1,
\* delete 1, insert 2, delete 2, ..., and a row matched by a rule satisfies
\* no earlier rule.  When execute_matching has completed, the no-matching
\* table is the one every other ordering of the rules leaves, started on the
\* same no-matching and referential tables.
C12_RuleOrderDoesNotChangeResidual ==
    /\ IsPrefix(executed, StatementsInOrder(Len(matching_rules)))
    /\ \A m \in BagToSet(InsertedByRun) :
           \A j \in 1..(m.matching_rule - 1) : \A r \in ref_table :
               ~RuleSatisfied(matching_rules[j], NmRowOf(m), r)
    /\ pc = "done" =>
           \A other \in Reorderings(matching_rules) :
               no_matching_after(other, 1, nm_at_start, ref_table)
                   = no_matching_table

C12_Witness ==
    /\ pc = "done"
    /\ run = 1
    /\ Len(matching_rules) = 2
    /\ matching_rules[1] # matching_rules[2]
    /\ \E m \in BagToSet(InsertedByRun) :
           /\ m.matching_rule = 1
           /\ RuleSatisfied(matching_rules[2], NmRowOf(m), RefRowOf(m))
    /\ \E m \in BagToSet(InsertedByRun) : m.matching_rule = 2

====
